---------------------------- MODULE Spec2Model ----------------------------
(***************************************************************************)
(* Model of arthur/jobs.py: the result record (JobResult), the job wrapper *)
(* (PercevalJob, its run loop over the items of a Perceval backend) and    *)
(* the retry loop of execute_perceval_job.                                 *)
(*                                                                         *)
(* Python values that may be None, or keys that may be missing from a      *)
(* dict, are records [set, v]: set = FALSE stands for None / missing key.  *)
(* Python truthiness (`if x:`) is the operator Truthy: None and 0 are      *)
(* both false.                                                             *)
(***************************************************************************)
EXTENDS Integers, Sequences, FiniteSets, TLC

(* ------------------------------ bounds -------------------------------- *)

\* Items the source yields during one execution (all attempts together).
MaxItems == 2

\* Largest max_retries the scheduler arguments carry.
MaxRetries == 3

\* Calls of PercevalJob.run a direct user of the class makes on one job.
MaxCalls == 2

(* --------------------------- value domains ----------------------------- *)

Unset == [set |-> FALSE, v |-> 0]

Some(x) == [set |-> TRUE, v |-> x]

\* `if x:` on an optional number: None is false, and so is 0.
Truthy(o) == o.set /\ o.v # 0

\* updated_on of an item: epoch seconds; dates before 1970 are negative.
TimeStamps == {-1, 0, 1}

\* offset of an item, when it carries one.
Offsets == {0, 1}

OptOffsets == {Unset} \cup {Some(o) : o \in Offsets}

\* grimoirelab.toolkit.datetime.unixtime_to_datetime: epoch seconds to an
\* aware datetime in UTC.
unixtime_to_datetime(t) == [epoch |-> t, tz |-> "UTC"]

NoDate == [set |-> FALSE, v |-> unixtime_to_datetime(0)]

\* The caller's backend_args: the keys 'from_date' and 'offset' are the two
\* run() may overwrite; either may be missing.  'uri' stands for every other
\* key of the mapping.
BackendArgs ==
    { [from_date |-> NoDate, offset |-> Unset, uri |-> "origin"],
      [from_date |-> [set |-> TRUE, v |-> unixtime_to_datetime(1)],
       offset |-> Some(1), uri |-> "origin"] }

NoArchive == [set |-> FALSE, archive_path |-> "", fetch_from_archive |-> FALSE]

\* archive_args: None, or a dict with 'archive_path' and 'fetch_from_archive'
\* ('archived_after' is passed through and plays no part here).
ArchiveArgs ==
    {NoArchive} \cup
    { [set |-> TRUE, archive_path |-> p, fetch_from_archive |-> f] :
        p \in {"", "/archive"}, f \in BOOLEAN }

\* archive_args a direct user of run() passes.
DirectArchiveArgs ==
    { NoArchive,
      [set |-> TRUE, archive_path |-> "", fetch_from_archive |-> FALSE],
      [set |-> TRUE, archive_path |-> "/archive", fetch_from_archive |-> FALSE] }

NoSched == [set |-> FALSE, max_retries |-> 0]

\* sched_args: None (the default), or a dict with 'max_retries'.
SchedArgs == {NoSched} \cup { [set |-> TRUE, max_retries |-> n] : n \in 0..MaxRetries }

\* rq_job.id of the job this execution runs as.
JobId == "job-1"

\* rq_job.id of a second job, run by another worker on the same queue.
OtherJobId == "job-2"

\* arthur._version.__version__
ArthurVersion == "arthur-version"

NoExc == [type |-> "None", attempt |-> 0]

VARIABLES
    caller,           \* "execute": execute_perceval_job; "direct": PercevalJob.run called by a user
    has_archiving,    \* self._bklass.has_archiving()
    has_resuming,     \* self._bklass.has_resuming()
    backend_args,     \* the caller's backend_args dict
    archive_args,     \* archive_args of the current call
    sched_args,       \* sched_args of execute_perceval_job
    result,           \* job._result
    archive_manager,  \* job.archive_manager
    queue,            \* the Redis list qitems
    pc,               \* control point
    resume,           \* local `resume` of execute_perceval_job
    failures,         \* local `failures` of execute_perceval_job
    exc,              \* exception run() raised
    raised,           \* exception execute_perceval_job raised to its caller
    args,             \* local `args` of run(): what the backend is handed
    fetch_path,       \* which perceval entry point _execute selected
    calls,            \* history: the invocations of run()
    yielded,          \* history: items the source has yielded
    entry_result,     \* history: job._result when the current run() was entered
    run_mark,         \* history: length of the queue when the current run() was entered
    fresh_mark,       \* history: length of the queue when the last run(resume=False) was entered
    forwarded,        \* history: uuids of the items this job took from its source and pushed, in order
    seen_offsets,     \* history: offsets of the items forwarded since the last run(resume=False) was entered
    other_nitems      \* _result.nitems of a second job that pushes to the same queue

vars == <<caller, has_archiving, has_resuming, backend_args, archive_args,
          sched_args, result, archive_manager, queue, pc, resume, failures,
          exc, raised, args, fetch_path, calls, yielded, entry_result,
          run_mark, fresh_mark, forwarded, seen_offsets, other_nitems>>

(* ------------------------------ JobResult ------------------------------ *)

\* JobResult(job_id, ..., None, None, 0, offset=None, nresumed=0)
FreshResult ==
    [job_id |-> JobId, last_uuid |-> Unset, max_date |-> Unset,
     nitems |-> 0, offset |-> Unset, nresumed |-> 0]

\* The items a source may yield next; uuid n is the n-th item yielded.
Items(n) ==
    { [uuid |-> n, updated_on |-> t, offset |-> o] :
        t \in TimeStamps, o \in OptOffsets }

\* Mutation of metadata: the decorator does not set 'job_id'.
metadataWithoutJobId(item) ==
    [uuid |-> item.uuid, updated_on |-> item.updated_on, offset |-> item.offset,
     arthur_version |-> ArthurVersion, job_id |-> ""]

\* The metadata decorator: tags an item with the version and the job id.
metadata(item) ==
    [uuid |-> item.uuid, updated_on |-> item.updated_on, offset |-> item.offset,
     arthur_version |-> ArthurVersion, job_id |-> JobId]

\* pickle.dumps(item): the serialized item stored in the queue.  Nothing in
\* this module reads an entry back, so an entry keeps the fields that
\* identify the item and its producer; updated_on and offset are payload.
Pickle(item) ==
    [pickled |-> [uuid |-> item.uuid, arthur_version |-> item.arthur_version,
                  job_id |-> item.job_id]]

(* ---------------------------- PercevalJob.run --------------------------- *)

\* Mutation of rpush: the entry is pushed at the head of the list (lpush).
lpush(q, entry) == <<entry>> \o q

\* self.conn.rpush(self.qitems, ...): Redis appends the entry at the tail of
\* the list, atomically.
rpush(q, entry) == Append(q, entry)

\* Mutation of ArchivePathRejected: the empty path is not checked.
ArchivePathAccepted(aargs) == FALSE

\* initialize_archive_manager raises ValueError on the empty path.
ArchivePathRejected(aargs) == aargs.set /\ aargs.archive_path = ""

\* job.archive_manager after initialize_archive_manager returned.
InitializedArchiveManager(aargs, manager) ==
    IF aargs.set /\ aargs.archive_path # ""
    THEN Some(aargs.archive_path)
    ELSE manager

\* The resume branch of run(): 'from_date' and 'offset' are overwritten in
\* the copy of backend_args when the result's values are truthy.
ResumeArgs(bargs, res) ==
    [bargs EXCEPT
       !.from_date = IF Truthy(res.max_date)
                     THEN [set |-> TRUE,
                           v |-> unixtime_to_datetime(res.max_date.v)]
                     ELSE @,
       !.offset    = IF Truthy(res.offset) THEN Some(res.offset.v) ELSE @]

\* nresumed after the resume branch.
ResumedCount(n) == n + 1

\* job._result after the `if not resume / else` of run().
EntryResult(res, rsm) ==
    IF ~rsm THEN FreshResult
    ELSE [res EXCEPT !.nresumed = ResumedCount(res.nresumed)]

\* args after the `if not resume / else` of run().
EntryArgs(bargs, res, rsm) ==
    IF ~rsm THEN bargs ELSE ResumeArgs(bargs, res)

\* The caller's mapping if run() wrote 'from_date' and 'offset' into
\* backend_args itself.
BackendArgsAliased(bargs, res, rsm) == EntryArgs(bargs, res, rsm)

\* The caller's mapping after run(): `args = backend_args.copy()` makes every
\* assignment of the resume branch land in the copy.
BackendArgsAfterCopy(bargs, res, rsm) == bargs

\* _execute: live fetch unless archive_args asks for the archive.
ExecutePath(aargs) ==
    IF ~aargs.set \/ ~aargs.fetch_from_archive
    THEN "fetch"
    ELSE "fetch_from_archive"

\* max_date after an item was forwarded.
UpdatedMaxDate(md, item) ==
    IF ~Truthy(md) \/ md.v < item.updated_on
    THEN Some(item.updated_on)
    ELSE md

\* The body of the `for item in ...` loop after rpush returned.
UpdatedResult(res, item) ==
    [res EXCEPT !.nitems = res.nitems + 1,
                !.last_uuid = Some(item.uuid),
                !.max_date = UpdatedMaxDate(res.max_date, item),
                !.offset = IF item.offset.set THEN item.offset ELSE res.offset]

\* run(backend_args, archive_args, resume) from its entry to the start of
\* the iteration over self._execute(args, archive_args).
RunEnter(bargs, aargs, rsm) ==
    /\ calls' = Append(calls, [resume |-> rsm, backend_args |-> bargs,
                               archive_args |-> aargs])
    /\ entry_result' = result
    /\ run_mark' = Len(queue)
    /\ fresh_mark' = IF rsm THEN fresh_mark ELSE Len(queue)
    /\ seen_offsets' = IF rsm THEN seen_offsets ELSE {}
    /\ archive_args' = aargs
    /\ IF ArchivePathRejected(aargs)
       THEN /\ exc' = [type |-> "ValueError", attempt |-> Len(calls) + 1]
            /\ pc' = "run_raised"
            /\ UNCHANGED <<result, archive_manager, args, fetch_path,
                           backend_args>>
       ELSE /\ archive_manager' = InitializedArchiveManager(aargs, archive_manager)
            /\ result' = EntryResult(result, rsm)
            /\ args' = EntryArgs(bargs, result, rsm)
            /\ backend_args' = BackendArgsAfterCopy(bargs, result, rsm)
            /\ fetch_path' = ExecutePath(aargs)
            /\ exc' = NoExc
            /\ pc' = "iter"
    /\ UNCHANGED <<queue, yielded, forwarded>>

\* One pass of the loop: the source yields an item, the decorator tags it,
\* rpush appends it and the result is updated.
Forward ==
    /\ pc = "iter"
    /\ yielded < MaxItems
    /\ \E raw \in Items(yielded + 1) :
         LET item == metadata(raw) IN
         /\ queue' = rpush(queue, Pickle(item))
         /\ result' = UpdatedResult(result, item)
         /\ forwarded' = Append(forwarded, raw.uuid)
         /\ seen_offsets' = IF raw.offset.set
                            THEN seen_offsets \cup {raw.offset.v}
                            ELSE seen_offsets
    /\ yielded' = yielded + 1
    /\ UNCHANGED <<caller, other_nitems, has_archiving, has_resuming, backend_args,
                   archive_args, sched_args, archive_manager, pc, resume,
                   failures, exc, raised, args, fetch_path, calls, entry_result,
                   run_mark, fresh_mark>>

\* The source yields an item and rpush raises (the connection failed): the
\* item is not stored and the loop body after rpush does not run.
PushFails ==
    /\ pc = "iter"
    /\ yielded < MaxItems
    /\ yielded' = yielded + 1
    /\ exc' = [type |-> "ConnectionError", attempt |-> Len(calls)]
    /\ pc' = "run_raised"
    /\ UNCHANGED <<caller, other_nitems, forwarded, seen_offsets, has_archiving, has_resuming, backend_args,
                   archive_args, sched_args, result, archive_manager, queue,
                   resume, failures, raised, args, fetch_path, calls,
                   entry_result, run_mark, fresh_mark>>

\* The source raises while it is iterated: AttributeError when a required
\* parameter is missing, any other exception for a failed fetch.
SourceRaises ==
    /\ pc = "iter"
    /\ \E t \in {"AttributeError", "Exception"} :
         exc' = [type |-> t, attempt |-> Len(calls)]
    /\ pc' = "run_raised"
    /\ UNCHANGED <<caller, other_nitems, forwarded, seen_offsets, has_archiving, has_resuming, backend_args,
                   archive_args, sched_args, result, archive_manager, queue,
                   resume, failures, raised, args, fetch_path, calls, yielded,
                   entry_result, run_mark, fresh_mark>>

\* The source is exhausted: run() returns.
SourceExhausted ==
    /\ pc = "iter"
    /\ pc' = "run_returned"
    /\ UNCHANGED <<caller, other_nitems, forwarded, seen_offsets, has_archiving, has_resuming, backend_args,
                   archive_args, sched_args, result, archive_manager, queue,
                   resume, failures, exc, raised, args, fetch_path, calls,
                   yielded, entry_result, run_mark, fresh_mark>>

(* ------------------------- execute_perceval_job ------------------------- *)

\* Mutation of ArchivingUnsupported: the archiving check is missing.
ArchivingUnsupportedIgnored(harch, aargs) == FALSE

\* `if not job.has_archiving() and archive_args`
ArchivingUnsupported(harch, aargs) == ~harch /\ aargs.set

\* Mutation of IsAttributeError: the `except AttributeError` clause is
\* missing, so every exception reaches `except Exception`.
IsAttributeErrorNever(e) == FALSE

\* `except AttributeError`
IsAttributeError(e) == e.type = "AttributeError"

\* Mutation of Cancelled: a failure never cancels the job.
CancelledNever(hres, nfail, sargs) == FALSE

\* Mutation of Cancelled: has_resuming() is not asked.
CancelledByBudgetOnly(hres, nfail, sargs) == nfail >= sargs.max_retries

\* `not job.has_resuming() or failures >= sched_args['max_retries']`, once
\* sched_args can be subscripted.
Cancelled(hres, nfail, sargs) == ~hres \/ nfail >= sargs.max_retries

\* Mutation of ResumeOnRetry: the retry branch forgets `resume = True`.
ResumeOnRetryKept(rsm) == rsm

\* `resume = True` of the retry branch.
ResumeOnRetry(rsm) == TRUE

\* Construction of the job, the archiving check and the loop's locals.
ExecuteStart ==
    /\ pc = "start"
    /\ IF ArchivingUnsupported(has_archiving, archive_args)
       THEN /\ pc' = "raised"
            /\ raised' = [type |-> "AttributeError", attempt |-> 0]
       ELSE /\ pc' = "loop"
            /\ raised' = raised
    /\ resume' = FALSE
    /\ failures' = 0
    /\ UNCHANGED <<caller, other_nitems, forwarded, seen_offsets, has_archiving, has_resuming, backend_args,
                   archive_args, sched_args, result, archive_manager, queue,
                   exc, args, fetch_path, calls, yielded, entry_result,
                   run_mark, fresh_mark>>

\* `job.run(backend_args, archive_args=archive_args, resume=resume)`
ExecuteRun ==
    /\ pc = "loop"
    /\ RunEnter(backend_args, archive_args, resume)
    /\ UNCHANGED <<caller, other_nitems, has_archiving, has_resuming, sched_args, resume,
                   failures, raised>>

\* `except AttributeError as e: raise e`
ExceptAttributeError ==
    /\ caller = "execute"
    /\ pc = "run_raised"
    /\ IsAttributeError(exc)
    /\ pc' = "raised"
    /\ raised' = exc
    /\ UNCHANGED <<caller, other_nitems, forwarded, seen_offsets, has_archiving, has_resuming, backend_args,
                   archive_args, sched_args, result, archive_manager, queue,
                   resume, failures, exc, args, fetch_path, calls, yielded,
                   entry_result, run_mark, fresh_mark>>

\* `except Exception as e:` the failure is counted and the job is cancelled
\* or resumed; subscripting sched_args = None raises TypeError.
ExceptException ==
    /\ caller = "execute"
    /\ pc = "run_raised"
    /\ ~IsAttributeError(exc)
    /\ failures' = failures + 1
    /\ IF has_resuming /\ ~sched_args.set
       THEN /\ pc' = "raised"
            /\ raised' = [type |-> "TypeError", attempt |-> exc.attempt]
            /\ resume' = resume
       ELSE IF Cancelled(has_resuming, failures + 1, sched_args)
       THEN /\ pc' = "raised"
            /\ raised' = exc
            /\ resume' = resume
       ELSE /\ pc' = "loop"
            /\ raised' = raised
            /\ resume' = ResumeOnRetry(resume)
    /\ UNCHANGED <<caller, other_nitems, forwarded, seen_offsets, has_archiving, has_resuming, backend_args,
                   archive_args, sched_args, result, archive_manager, queue,
                   exc, args, fetch_path, calls, yielded, entry_result,
                   run_mark, fresh_mark>>

\* `else: run_job = False`, then `return result`.
ExecuteReturn ==
    /\ caller = "execute"
    /\ pc = "run_returned"
    /\ pc' = "returned"
    /\ UNCHANGED <<caller, other_nitems, forwarded, seen_offsets, has_archiving, has_resuming, backend_args,
                   archive_args, sched_args, result, archive_manager, queue,
                   resume, failures, exc, raised, args, fetch_path, calls,
                   yielded, entry_result, run_mark, fresh_mark>>

(* ------------------------ PercevalJob used directly --------------------- *)

\* A user of the class calls run() on a job, again after it returned or
\* raised, with the resume flag and the archive arguments of its choice.
DirectRun ==
    /\ caller = "direct"
    /\ pc \in {"idle", "run_returned", "run_raised"}
    /\ Len(calls) < MaxCalls
    /\ \E rsm \in BOOLEAN, aargs \in DirectArchiveArgs :
         RunEnter(backend_args, aargs, rsm)
    /\ UNCHANGED <<caller, other_nitems, has_archiving, has_resuming, sched_args, resume,
                   failures, raised>>

(* ------------------------- a second job, same queue -------------------- *)

\* The run loop of another PercevalJob, executed by another worker on the
\* same qitems: its source yields its next item, the decorator tags it with
\* that job's id, rpush appends it and that job's nitems is incremented.
OtherForward ==
    /\ other_nitems < MaxItems
    /\ queue' = rpush(queue, Pickle([uuid |-> other_nitems + 1,
                                     arthur_version |-> ArthurVersion,
                                     job_id |-> OtherJobId]))
    /\ other_nitems' = other_nitems + 1
    /\ UNCHANGED <<caller, has_archiving, has_resuming, backend_args,
                   archive_args, sched_args, result, archive_manager, pc,
                   resume, failures, exc, raised, args, fetch_path, calls,
                   yielded, entry_result, run_mark, fresh_mark, forwarded,
                   seen_offsets>>

(* ---------------------------- specification ---------------------------- *)

Init ==
    /\ caller \in {"execute", "direct"}
    /\ has_archiving \in (IF caller = "execute" THEN BOOLEAN ELSE {TRUE})
    /\ has_resuming \in (IF caller = "execute" THEN BOOLEAN ELSE {TRUE})
    /\ backend_args \in BackendArgs
    /\ archive_args \in (IF caller = "execute" THEN ArchiveArgs ELSE {NoArchive})
    /\ sched_args \in (IF caller = "execute" THEN SchedArgs ELSE {NoSched})
    /\ result = FreshResult
    /\ archive_manager = [set |-> FALSE, v |-> ""]
    /\ queue = <<>>
    /\ pc = IF caller = "execute" THEN "start" ELSE "idle"
    /\ resume = FALSE
    /\ failures = 0
    /\ exc = NoExc
    /\ raised = NoExc
    /\ args = backend_args
    /\ fetch_path = "none"
    /\ calls = <<>>
    /\ yielded = 0
    /\ entry_result = FreshResult
    /\ run_mark = 0
    /\ fresh_mark = 0
    /\ forwarded = <<>>
    /\ seen_offsets = {}
    /\ other_nitems = 0

Next ==
    \/ ExecuteStart
    \/ ExecuteRun
    \/ Forward
    \/ PushFails
    \/ SourceRaises
    \/ SourceExhausted
    \/ ExceptAttributeError
    \/ ExceptException
    \/ ExecuteReturn
    \/ DirectRun

Spec == Init /\ [][Next]_vars

\* execute_perceval_job on a backend that archives and resumes, with
\* max_retries = 2, while a second job pushes to the same queue.
InitConc ==
    /\ Init
    /\ caller = "execute"
    /\ has_archiving
    /\ has_resuming
    /\ ~archive_args.set
    /\ sched_args = [set |-> TRUE, max_retries |-> 2]

NextConc ==
    \/ ExecuteStart
    \/ ExecuteRun
    \/ Forward
    \/ PushFails
    \/ SourceRaises
    \/ SourceExhausted
    \/ ExceptAttributeError
    \/ ExceptException
    \/ ExecuteReturn
    \/ OtherForward

SpecConc == InitConc /\ [][NextConc]_vars

\* The job runs on one thread that keeps running: a step that can be taken
\* is taken.  The source of a run() is finite (MaxItems), so each attempt
\* ends.
LiveSpec == Spec /\ WF_vars(Next)

(* ------------------------- vocabulary of the claims --------------------- *)

\* The invocation of run() in progress, or the last one made.
LastCall == calls[Len(calls)]

\* execute_perceval_job has ended, by `return result` or by raising.
Terminated == pc \in {"returned", "raised"}

\* run() has returned or raised and its caller has not acted yet.
RunEnded == pc \in {"run_returned", "run_raised"}

\* max_retries = N with N >= 1 and a backend that can resume.
RetryBudget == has_resuming /\ sched_args.set /\ sched_args.max_retries >= 1

(* --------------------------------- C1 ---------------------------------- *)

\* C1, history part: in execute_perceval_job the first invocation of run()
\* has resume = False, every later one has resume = True, and all of them get
\* the caller's backend_args and archive_args.
C1_CallHistory ==
    (caller = "execute" /\ Len(calls) >= 1) =>
        /\ ~calls[1].resume
        /\ \A i \in 1..Len(calls) :
             /\ (i > 1 => calls[i].resume)
             /\ calls[i].backend_args = backend_args
             /\ calls[i].backend_args = calls[1].backend_args
             /\ calls[i].archive_args = calls[1].archive_args

\* C1, step part: a failure of run() that is not an AttributeError, on a
\* backend that can resume and with the failure counter (this failure
\* counted) below max_retries, leads back to the loop with resume = True.
C1_RetryStep ==
    ( /\ caller = "execute"
      /\ pc = "run_raised"
      /\ exc.type # "AttributeError"
      /\ has_resuming
      /\ sched_args.set
      /\ failures + 1 < sched_args.max_retries )
    => (pc' = "loop" /\ resume' = TRUE)

\* C1, step part: at the head of the loop run() is invoked with the current
\* value of resume and the caller's backend_args and archive_args.
C1_LoopStep ==
    pc = "loop" =>
        calls' = Append(calls, [resume |-> resume, backend_args |-> backend_args,
                                archive_args |-> archive_args])

\* C1: the first run() of execute_perceval_job is made with resume = False;
\* after a retryable failure run() is invoked again with resume = True and
\* the same backend_args and archive_args; every invocation after the first
\* has resume = True.
C1_FirstFreshThenResumed ==
    /\ []C1_CallHistory
    /\ [][C1_RetryStep]_vars
    /\ [][C1_LoopStep]_vars

\* C1 witness: a second invocation of run(), with resume = True, is fetching
\* after the first one failed.
C1_Witness ==
    /\ caller = "execute"
    /\ Len(calls) = 2
    /\ calls[2].resume
    /\ failures = 1
    /\ pc = "iter"

(* --------------------------------- C2 ---------------------------------- *)

\* C2: when every attempt fails with an exception that is not an
\* AttributeError, the backend can resume and max_retries = N >= 1, then
\* run() was invoked exactly N times when the exception of the N-th attempt
\* reaches the caller, and result.nresumed = N - 1.
C2_AllAttemptsFail ==
    ( /\ caller = "execute"
      /\ pc = "raised"
      /\ raised.attempt >= 1
      /\ raised.type # "AttributeError"
      /\ RetryBudget )
    => /\ Len(calls) = sched_args.max_retries
       /\ raised = exc
       /\ raised.attempt = sched_args.max_retries
       /\ result.nresumed = sched_args.max_retries - 1

(* --------------------------------- C3 ---------------------------------- *)

\* C3: with an empty archive_path on a backend that supports archiving,
\* run() is invoked once, its error reaches the caller, and nresumed stays 0,
\* whatever has_resuming() and max_retries are.
C3_EmptyArchivePathNotRetried ==
    ( /\ caller = "execute"
      /\ has_archiving
      /\ archive_args.set
      /\ archive_args.archive_path = "" )
    => /\ Len(calls) <= 1
       /\ result.nresumed = 0
       /\ pc # "returned"
       /\ (pc = "raised" => raised.type = "ValueError" /\ raised.attempt = 1)

(* --------------------------------- C4 ---------------------------------- *)

\* C4, step part: an AttributeError raised by run() is re-raised to the
\* caller by the next step, which neither counts a failure nor invokes run().
C4_ReraiseStep ==
    ( /\ caller = "execute"
      /\ pc = "run_raised"
      /\ exc.type = "AttributeError" )
    => /\ pc' = "raised"
       /\ raised' = exc
       /\ failures' = failures
       /\ resume' = resume
       /\ calls' = calls

\* C4, step part: once execute_perceval_job has raised, nothing follows.
C4_RaisedIsFinal == pc = "raised" => UNCHANGED vars

\* C4: an AttributeError raised by run(), on any attempt and after any
\* number of forwarded items, is re-raised at once: run() is not invoked
\* again and the failure counter is untouched, whatever has_resuming() and
\* the remaining retries are.
C4_AttributeErrorNeverRetried ==
    /\ [][C4_ReraiseStep]_vars
    /\ [][C4_RaisedIsFinal]_vars

\* C4 witness: the AttributeError of a resumed attempt reached the caller
\* after items were forwarded, on a backend that can resume and with retries
\* left.
C4_Witness ==
    /\ caller = "execute"
    /\ pc = "raised"
    /\ raised.type = "AttributeError"
    /\ raised.attempt = 2
    /\ result.nitems >= 1
    /\ has_resuming
    /\ sched_args.set
    /\ failures + 1 < sched_args.max_retries

(* --------------------------------- C5 ---------------------------------- *)

\* C5: whenever run() has returned or raised, and when execute_perceval_job
\* has ended, result.nitems is the number of items the job appended to the
\* queue since its last run(resume=False) was entered.
C5_ItemsCountedSinceFreshRun ==
    (RunEnded \/ Terminated) => result.nitems = Len(queue) - fresh_mark

(* --------------------------------- C6 ---------------------------------- *)

\* C6, step part: a step that replaces a max_date that is set by another
\* one replaces it by a value at least as large.
C6_MaxDateStep ==
    (result.max_date.set /\ result'.max_date.set)
        => result'.max_date.v >= result.max_date.v

\* C6: result.max_date never decreases while items are forwarded, over any
\* number of resumed attempts after a fresh run, for every timestamp an item
\* may carry.
C6_MaxDateNeverDecreases == [][C6_MaxDateStep]_vars

(* --------------------------------- C7 ---------------------------------- *)

\* C7, step part: entering run() adds 1 to nresumed when resume = True and
\* nothing when resume = False.
C7_EntryStep ==
    (caller = "execute" /\ pc = "loop")
        => result'.nresumed = result.nresumed + (IF resume THEN 1 ELSE 0)

\* C7, step part: nresumed never decreases during execute_perceval_job.
C7_MonotoneStep ==
    caller = "execute" => result'.nresumed >= result.nresumed

\* C7, final part: when execute_perceval_job ends, nresumed is the number
\* of invocations of run() minus one.
C7_FinalCount ==
    (caller = "execute" /\ Terminated /\ Len(calls) >= 1)
        => result.nresumed = Len(calls) - 1

\* C7: nresumed grows by exactly 1 on every run(resume=True), by 0 on
\* run(resume=False), never decreases, and ends as the number of invocations
\* of run() minus one.
C7_ResumedCountsResumedRuns ==
    /\ [][C7_EntryStep]_vars
    /\ [][C7_MonotoneStep]_vars
    /\ []C7_FinalCount

(* --------------------------------- C8 ---------------------------------- *)

\* C8: a run(resume=True) that starts fetching hands the backend a from_date
\* equal to the datetime of the max_date the result held on entry, whenever
\* a forwarded item had set that max_date.
C8_ResumeFromMaxDate ==
    ( /\ pc = "iter"
      /\ LastCall.resume
      /\ entry_result.max_date.set )
    => args.from_date = [set |-> TRUE,
                         v |-> unixtime_to_datetime(entry_result.max_date.v)]

(* --------------------------------- C9 ---------------------------------- *)

\* C9: a run(resume=True) that starts fetching hands the backend an offset
\* equal to the offset the result held on entry, whenever a forwarded item
\* had set that offset, for every offset value including 0.
C9_ResumeFromOffset ==
    ( /\ pc = "iter"
      /\ LastCall.resume
      /\ entry_result.offset.set )
    => args.offset = entry_result.offset

(* --------------------------------- C10 --------------------------------- *)

\* C10: once run(resume=False) has been entered, the result counts only the
\* items of this invocation: nresumed is 0, nitems is the number of items it
\* appended, and before its first item last_uuid, max_date and offset are
\* unset; also when the invocation fails, whatever archive_args it was given.
C10_FreshRunResets ==
    ( /\ Len(calls) >= 1
      /\ (pc = "iter" \/ RunEnded)
      /\ ~LastCall.resume )
    => /\ result.nresumed = 0
       /\ result.nitems = Len(queue) - run_mark
       /\ (Len(queue) = run_mark =>
             /\ result.last_uuid = Unset
             /\ result.max_date = Unset
             /\ result.offset = Unset)

(* --------------------------------- C11 --------------------------------- *)

\* C11: when archive_args is supplied and has_archiving() is false,
\* execute_perceval_job raises AttributeError before run() is invoked: no
\* fetch is started, nothing is appended to the queue, and the check is the
\* first step of the function, outside the retry loop.
C11_ArchivingCheckedBeforeRun ==
    (caller = "execute" /\ ~has_archiving /\ archive_args.set) =>
        /\ calls = <<>>
        /\ fetch_path = "none"
        /\ queue = <<>>
        /\ failures = 0
        /\ pc \in {"start", "raised"}
        /\ (pc = "raised" => raised = [type |-> "AttributeError", attempt |-> 0])

\* C11 witness: the AttributeError of the archiving check reached the
\* caller, on a backend that could have resumed.
C11_Witness ==
    /\ caller = "execute"
    /\ ~has_archiving
    /\ archive_args.set
    /\ archive_args.archive_path = "/archive"
    /\ has_resuming
    /\ pc = "raised"
    /\ raised.type = "AttributeError"

(* --------------------------------- C12 --------------------------------- *)

\* C12, execute_perceval_job: with an empty archive_path no attempt starts
\* the live fetch or the archive replay, nothing is appended to the queue
\* and the function never returns a result.
C12_ExecuteNeverFetches ==
    (caller = "execute" /\ archive_args.set /\ archive_args.archive_path = "") =>
        /\ fetch_path = "none"
        /\ queue = <<>>
        /\ pc \notin {"iter", "run_returned", "returned"}
        /\ (pc = "run_raised" => exc.type = "ValueError")

\* C12, run() called directly: an invocation given an empty archive_path
\* raises ValueError without fetching or appending anything.
C12_RunNeverFetches ==
    ( /\ Len(calls) >= 1
      /\ LastCall.archive_args.set
      /\ LastCall.archive_args.archive_path = ""
      /\ (pc = "iter" \/ RunEnded) )
    => /\ pc = "run_raised"
       /\ exc = [type |-> "ValueError", attempt |-> Len(calls)]
       /\ Len(queue) = run_mark

\* C12: when the archive path supplied is the empty string the job fails
\* before any fetch attempt: on every attempt neither fetch path is started
\* and no item is appended, for both values of fetch_from_archive.
C12_EmptyArchivePathFailsBeforeFetch ==
    C12_ExecuteNeverFetches /\ C12_RunNeverFetches

\* C12 witness: the second attempt of a job asked to fetch from the archive
\* with an empty archive_path has failed like the first.
C12_Witness ==
    /\ caller = "execute"
    /\ archive_args.set
    /\ archive_args.archive_path = ""
    /\ archive_args.fetch_from_archive
    /\ Len(calls) = 2
    /\ pc = "run_raised"

(* --------------------------------- C13 --------------------------------- *)

\* C13, state part: on a backend that cannot resume run() is invoked at
\* most once, never with resume = True, and nresumed stays 0; a failure of
\* run() that reached the caller is the exception of that single attempt.
C13_SingleAttempt ==
    (caller = "execute" /\ ~has_resuming) =>
        /\ Len(calls) <= 1
        /\ ~resume
        /\ result.nresumed = 0
        /\ ((pc = "raised" /\ raised.attempt >= 1) =>
              (raised = exc /\ Len(calls) = 1))

\* C13, step part: on a backend that cannot resume the failure of the first
\* attempt is re-raised by the next step, whatever max_retries is.
C13_FatalStep ==
    ( /\ caller = "execute"
      /\ ~has_resuming
      /\ pc = "run_raised"
      /\ exc.type # "AttributeError" )
    => (pc' = "raised" /\ raised' = exc /\ calls' = calls)

\* C13: when has_resuming() is false, any failure of the first attempt that
\* is not an AttributeError is fatal: run() is invoked exactly once, the
\* exception is re-raised and nresumed is 0, for every max_retries.
C13_NoResumingNoRetry ==
    /\ []C13_SingleAttempt
    /\ [][C13_FatalStep]_vars

\* C13 witness: a fetch failure after a forwarded item reached the caller
\* on a backend that cannot resume, with max_retries = 3.
C13_Witness ==
    /\ caller = "execute"
    /\ ~has_resuming
    /\ sched_args.set
    /\ sched_args.max_retries = 3
    /\ pc = "raised"
    /\ raised.type = "Exception"
    /\ result.nitems >= 1

(* --------------------------------- C14 --------------------------------- *)

\* C14: when a failure of run() that is not an AttributeError ends
\* execute_perceval_job, the exception that reaches the caller is the very
\* exception that attempt raised, for every sched_args, None included.
C14_FatalFailureUnwrapped ==
    ( /\ caller = "execute"
      /\ pc = "raised"
      /\ raised.attempt >= 1
      /\ exc.type # "AttributeError" )
    => raised = exc

(* --------------------------------- C15 --------------------------------- *)

\* The most invocations of run() the claim allows: max(1, max_retries).
C15_MostCalls ==
    IF sched_args.set /\ sched_args.max_retries > 1
    THEN sched_args.max_retries
    ELSE 1

\* C15, state part: run() is invoked at most max(1, max_retries) times; the
\* function returns only after an attempt that returned, and otherwise ends
\* with an exception.
C15_BoundedAttempts ==
    caller = "execute" =>
        /\ Len(calls) <= C15_MostCalls
        /\ (pc = "returned" => (Len(calls) >= 1 /\ exc = NoExc))
        /\ (pc = "raised" => raised # NoExc)

\* C15: the retry loop of execute_perceval_job always terminates when each
\* attempt does: run() is invoked at most max(1, max_retries) times and the
\* function ends by returning the result of a successful attempt or by
\* raising.
C15_RetryLoopTerminates ==
    /\ []C15_BoundedAttempts
    /\ ((caller = "execute") ~> Terminated)

\* C15 witness: the function returned after max_retries = 3 attempts, the
\* last one successful.
C15_Witness ==
    /\ caller = "execute"
    /\ sched_args.set
    /\ sched_args.max_retries = 3
    /\ Len(calls) = 3
    /\ pc = "returned"

(* --------------------------------- C16 --------------------------------- *)

\* C16: every entry of the queue carries the arthur_version tag and the
\* job_id of the job that forwarded it, whichever fetch path produced it and
\* on every attempt.
C16_EntriesTagged ==
    \A i \in 1..Len(queue) :
        /\ queue[i].pickled.arthur_version = ArthurVersion
        /\ queue[i].pickled.job_id = JobId
        /\ queue[i].pickled.job_id = result.job_id

\* C16 witness: a resumed attempt that replays the archive has forwarded an
\* item after the first attempt forwarded one.
C16_Witness ==
    /\ caller = "execute"
    /\ fetch_path = "fetch_from_archive"
    /\ Len(calls) = 2
    /\ LastCall.resume
    /\ run_mark = 1
    /\ Len(queue) = 2

(* --------------------------------- C17 --------------------------------- *)

\* The entries of q that carry the job_id id, in the order of q.
EntriesOf(q, id) == SelectSeq(q, LAMBDA e : e.pickled.job_id = id)

\* The uuids of a sequence of entries.
UuidsOf(entries) == [i \in 1..Len(entries) |-> entries[i].pickled.uuid]

\* C17: with two jobs appending to the same queue, the entries of each job
\* are, in order, exactly the items that job forwarded (over all its
\* attempts), and each job's nitems counts its own entries only, whatever
\* the interleaving.
C17_PerJobOrderAndCount ==
    /\ UuidsOf(EntriesOf(queue, JobId)) = forwarded
    /\ result.nitems = Len(EntriesOf(queue, JobId))
    /\ UuidsOf(EntriesOf(queue, OtherJobId)) = [i \in 1..other_nitems |-> i]
    /\ other_nitems = Len(EntriesOf(queue, OtherJobId))
    /\ Len(queue) = result.nitems + other_nitems

\* C17 witness: an entry of the second job lies between an item of the first
\* attempt and an item of the resumed attempt of this job.
C17_Witness ==
    /\ Len(calls) = 2
    /\ LastCall.resume
    /\ Len(queue) = 3
    /\ queue[1].pickled.job_id = JobId
    /\ queue[2].pickled.job_id = OtherJobId
    /\ queue[3].pickled.job_id = JobId
    /\ run_mark = 2

(* --------------------------------- C18 --------------------------------- *)

\* The step is the entry of a run(resume=True) that follows a failed attempt.
ResumedEntryAfterFailure ==
    /\ \/ caller = "execute" /\ pc = "loop" /\ resume
       \/ caller = "direct" /\ pc = "run_raised"
    /\ Len(calls') = Len(calls) + 1
    /\ calls'[Len(calls')].resume

\* C18, failure part: the step on which the attempt raises, and the handling
\* of that exception, leave the result as the forwarded items made it.
C18_FailureKeepsResult ==
    (pc' = "run_raised" \/ pc = "run_raised") /\ calls' = calls
        => result' = result

\* C18, entry part: the entry of the following run(resume=True) adds 1 to
\* nresumed and changes nothing else of the result.
C18_ResumedEntryStep ==
    ResumedEntryAfterFailure
        => result' = [result EXCEPT !.nresumed = @ + 1]

\* C18, entry part restricted to runs that get past the archive manager.
C18_AcceptedResumedEntryStep ==
    (ResumedEntryAfterFailure /\ pc' = "iter")
        => result' = [result EXCEPT !.nresumed = @ + 1]

\* C18: partial progress is never rolled back: a failing attempt keeps the
\* result of its forwarded items, and the entry of the following
\* run(resume=True) only adds 1 to nresumed.
C18_ProgressNeverRolledBack ==
    [][C18_FailureKeepsResult /\ C18_ResumedEntryStep]_vars

\* The parts of C18 that hold: nothing is rolled back, and a resumed run that
\* gets past the archive manager only adds 1 to nresumed.
C18_NoRollback ==
    [][C18_FailureKeepsResult /\ C18_AcceptedResumedEntryStep]_vars

(* --------------------------------- C19 --------------------------------- *)

\* The largest element of a non-empty set of offsets.
MaxOffset(S) == CHOOSE m \in S : \A o \in S : o <= m

\* C19: while a run forwards items, result.offset is the largest offset
\* carried by the items forwarded since the last fresh run.
C19_OffsetIsMaximum ==
    (pc = "iter" /\ seen_offsets # {})
        => result.offset = Some(MaxOffset(seen_offsets))

\* What the loop keeps instead: result.offset is one of the offsets forwarded
\* since the last fresh run (the one of the latest item that carried one).
C19_OffsetIsSomeForwarded ==
    (pc = "iter" /\ seen_offsets # {})
        => (result.offset.set /\ result.offset.v \in seen_offsets)

(* --------------------------------- C20 --------------------------------- *)

\* C20, frame part: no step changes the caller's backend_args.
C20_BackendArgsStep == backend_args' = backend_args

\* C20, attempts part: every invocation of run() received the caller's
\* original backend_args, and the args handed to the backend differ from
\* them in 'from_date' and 'offset' at most, each being the caller's value
\* or the one derived from the result the run found on entry.
C20_AttemptsFromOriginal ==
    /\ \A i \in 1..Len(calls) : calls[i].backend_args = backend_args
    /\ pc = "iter" =>
         /\ args.uri = backend_args.uri
         /\ args.from_date \in
              { backend_args.from_date,
                [set |-> TRUE,
                 v |-> unixtime_to_datetime(entry_result.max_date.v)] }
         /\ args.offset \in { backend_args.offset, Some(entry_result.offset.v) }
         /\ ~LastCall.resume => args = backend_args

\* C20: run() never modifies the caller's backend_args; the substitution of a
\* resumed run lands in a copy, so every attempt starts from the original
\* arguments and only 'from_date' and 'offset' differ between attempts.
C20_BackendArgsNeverModified ==
    /\ [][C20_BackendArgsStep]_vars
    /\ []C20_AttemptsFromOriginal

\* C20 witness: a resumed attempt of the retry loop fetches with a
\* substituted from_date and offset while the caller's mapping still holds
\* the original ones.
C20_Witness ==
    /\ caller = "execute"
    /\ pc = "iter"
    /\ Len(calls) = 2
    /\ LastCall.resume
    /\ args.from_date # backend_args.from_date
    /\ args.offset # backend_args.offset
    /\ calls[1].backend_args = backend_args

=============================================================================
